---- MODULE Spec2Model ----
(***************************************************************************)
(* Non-blocking SPI transfer API of rust/mynewt/src/spi.rs.                *)
(*                                                                         *)
(* The state is the module's statics (SPI_SEM, SPI_DATA_QUEUE,             *)
(* SPI_EVENT_QUEUE, spi_callout, SPI_TASK, spi_cb_obj), the part of the    *)
(* HAL the module drives (SPI port SPI_NUM and the chip-select pin         *)
(* SPI_SS_PIN) and the position of spi_noblock_init.  History variables    *)
(* (accepted, started, freed, handlerRuns, calloutRuns, lastSubmit) record *)
(* what the callers, the HAL and the pool have seen; no action reads them  *)
(* except to bound the run.                                                *)
(*                                                                         *)
(* Contexts: the caller of spi_noblock_init / spi_noblock_write, the SPI   *)
(* task (spi_task_func, which dispatches spi_event_callback), the          *)
(* completion interrupt (spi_noblock_handler, called by the HAL) and the   *)
(* default event queue's task (spi_noblock_callback, the callout).         *)
(***************************************************************************)
EXTENDS Naturals, Sequences, FiniteSets

\* ------------------------------------------------------------ bounds

\* Number of calls of spi_noblock_write in a run.
MaxSubmits == 3

\* Number of completion interrupts the HAL delivers in a run.
MaxInterrupts == 2

\* Number of applications of internal_spi_noblock_write in a run of SpecWrite.
MaxWrites == 2

\* ------------------------------------------------- program constants

\* let timeout = 1000;
timeout == 1000

\* let OS_TICKS_PER_SEC = 1000;
OS_TICKS_PER_SEC == 1000

\* The ticks handed to os_sem_pend: timeout * OS_TICKS_PER_SEC / 1000.
PendTicks == (timeout * OS_TICKS_PER_SEC) \div 1000

\* The byte slices callers hand to spi_noblock_write.
Words == { <<1, 2>>, <<3>> }

\* Return codes of the HAL and OS primitives: 0, or an error code.
RC == { 0, 1 }

NULL == <<>>

VARIABLES
    initpc,           \* position of spi_noblock_init, or how it ended
    initFail,         \* the primitive whose failure ended spi_noblock_init
    hal_spi,          \* SPI port SPI_NUM: [configured, txrx_cb, enabled, busy]
    ss_pin,           \* chip-select line SPI_SS_PIN: "floating", "low", "high"
    SPI_EVENT_QUEUE,  \* [init, q]: events pending for the SPI task
    SPI_DATA_QUEUE,   \* [init, q]: mbuf chains put and not yet got
    SPI_SEM,          \* [init, tokens]
    SPI_TASK,         \* "uninit", or the position of the SPI task
    spi_callout,      \* "uninit", "idle", "armed"
    spi_cb_obj,       \* [transfers, txlen, tx_rx_bytes]
    om,               \* the mbuf chain spi_event_callback holds, or NULL
    pendResult,       \* what the last os_sem_pend returned
    accepted,         \* history: the words of every spi_noblock_write that returned Ok
    lastSubmit,       \* history: what the last spi_noblock_write returned
    started,          \* history: the buffers handed to hal_spi_txrx_noblock
    freed,            \* history: the chains handed to os_mbuf_free_chain
    handlerRuns,      \* history: runs of spi_noblock_handler
    calloutRuns       \* history: runs of spi_noblock_callback

vars == << initpc, initFail, hal_spi, ss_pin, SPI_EVENT_QUEUE, SPI_DATA_QUEUE,
           SPI_SEM, SPI_TASK, spi_callout, spi_cb_obj, om, pendResult,
           accepted, lastSubmit, started, freed, handlerRuns, calloutRuns >>

\* Groups of variables the actions leave alone together.
initVars == << initpc, initFail >>
histVars == << accepted, lastSubmit, started, freed >>
taskVars == << SPI_TASK, om, pendResult >>

\* ------------------------------------------------------ initial state

\* The statics as the source initialises them: fill_zero!() objects, the
\* counters 0; spi_noblock_init not yet called, the pin not yet configured.
Init ==
    /\ initpc = "idle"
    /\ initFail = "none"
    /\ hal_spi = [configured |-> FALSE, txrx_cb |-> FALSE, enabled |-> FALSE, busy |-> FALSE]
    /\ ss_pin = "floating"
    /\ SPI_EVENT_QUEUE = [init |-> FALSE, q |-> <<>>]
    /\ SPI_DATA_QUEUE = [init |-> FALSE, q |-> <<>>]
    /\ SPI_SEM = [init |-> FALSE, tokens |-> 0]
    /\ SPI_TASK = "uninit"
    /\ spi_callout = "uninit"
    /\ spi_cb_obj = [transfers |-> 0, txlen |-> 0, tx_rx_bytes |-> 0]
    /\ om = NULL
    /\ pendResult = "none"
    /\ accepted = <<>>
    /\ lastSubmit = "none"
    /\ started = <<>>
    /\ freed = <<>>
    /\ handlerRuns = 0
    /\ calloutRuns = 0

\* A failed assert_eq!() panics: the firmware halts.
Halted == initpc = "panic" \/ SPI_TASK = "panic"

\* ------------------------------------------------------ HAL primitives

\* hal_gpio_write(SPI_SS_PIN, level): drives the line once it is an output.
hal_gpio_write(pin, level) ==
    IF pin = "floating" THEN "floating" ELSE level

\* ------------------------------------------------- spi_noblock_init

\* assert_eq!(rc, 0, ...): the next statement on 0, a panic otherwise.
assert_eq_rc(rc, next, what) ==
    IF rc = 0
    THEN /\ initpc' = next
         /\ UNCHANGED initFail
    ELSE /\ initpc' = "panic"
         /\ initFail' = what

\* `?` on a MynewtResult: the next statement on Ok, return Err otherwise.
try_rc(rc, next, what) ==
    IF rc = 0
    THEN /\ initpc' = next
         /\ UNCHANGED initFail
    ELSE /\ initpc' = "err"
         /\ initFail' = what

\* hal::hal_spi_disable(SPI_NUM)
init_spi_disable ==
    /\ initpc = "idle"
    /\ initpc' = "hal_spi_config"
    /\ hal_spi' = [hal_spi EXCEPT !.enabled = FALSE]
    /\ UNCHANGED << initFail, ss_pin, SPI_EVENT_QUEUE, SPI_DATA_QUEUE, SPI_SEM,
                    spi_callout, spi_cb_obj, handlerRuns, calloutRuns >>
    /\ UNCHANGED << taskVars, histVars >>

\* hal::hal_spi_config(SPI_NUM, &mut SPI_SETTINGS); assert_eq!(rc, 0, "spi config fail")
init_spi_config ==
    /\ initpc = "hal_spi_config"
    /\ \E rc \in RC :
        /\ assert_eq_rc(rc, "hal_spi_set_txrx_cb", "hal_spi_config")
        /\ hal_spi' = [hal_spi EXCEPT !.configured = (rc = 0)]
    /\ UNCHANGED << ss_pin, SPI_EVENT_QUEUE, SPI_DATA_QUEUE, SPI_SEM,
                    spi_callout, spi_cb_obj, handlerRuns, calloutRuns >>
    /\ UNCHANGED << taskVars, histVars >>

\* hal::hal_spi_set_txrx_cb(SPI_NUM, Some(spi_noblock_handler), arg); assert_eq!(rc, 0, "spi cb fail")
init_spi_set_txrx_cb ==
    /\ initpc = "hal_spi_set_txrx_cb"
    /\ \E rc \in RC :
        /\ assert_eq_rc(rc, "hal_spi_enable", "hal_spi_set_txrx_cb")
        /\ hal_spi' = [hal_spi EXCEPT !.txrx_cb = (rc = 0)]
    /\ UNCHANGED << ss_pin, SPI_EVENT_QUEUE, SPI_DATA_QUEUE, SPI_SEM,
                    spi_callout, spi_cb_obj, handlerRuns, calloutRuns >>
    /\ UNCHANGED << taskVars, histVars >>

\* hal::hal_spi_enable(SPI_NUM); assert_eq!(rc, 0, "spi enable fail")
init_spi_enable ==
    /\ initpc = "hal_spi_enable"
    /\ \E rc \in RC :
        /\ assert_eq_rc(rc, "hal_gpio_init_out", "hal_spi_enable")
        /\ hal_spi' = [hal_spi EXCEPT !.enabled = (rc = 0)]
    /\ UNCHANGED << ss_pin, SPI_EVENT_QUEUE, SPI_DATA_QUEUE, SPI_SEM,
                    spi_callout, spi_cb_obj, handlerRuns, calloutRuns >>
    /\ UNCHANGED << taskVars, histVars >>

\* hal::hal_gpio_init_out(SPI_SS_PIN, 1); assert_eq!(rc, 0, "gpio fail")
init_gpio_init_out ==
    /\ initpc = "hal_gpio_init_out"
    /\ \E rc \in RC :
        /\ assert_eq_rc(rc, "os_eventq_init", "hal_gpio_init_out")
        /\ ss_pin' = IF rc = 0 THEN "high" ELSE ss_pin
    /\ UNCHANGED << hal_spi, SPI_EVENT_QUEUE, SPI_DATA_QUEUE, SPI_SEM,
                    spi_callout, spi_cb_obj, handlerRuns, calloutRuns >>
    /\ UNCHANGED << taskVars, histVars >>

\* os::os_eventq_init(&mut SPI_EVENT_QUEUE)
init_eventq_init ==
    /\ initpc = "os_eventq_init"
    /\ initpc' = "os_mqueue_init"
    /\ SPI_EVENT_QUEUE' = [init |-> TRUE, q |-> <<>>]
    /\ UNCHANGED << initFail, hal_spi, ss_pin, SPI_DATA_QUEUE, SPI_SEM,
                    spi_callout, spi_cb_obj, handlerRuns, calloutRuns >>
    /\ UNCHANGED << taskVars, histVars >>

\* os::os_mqueue_init(&mut SPI_DATA_QUEUE, Some(spi_event_callback), NULL); assert_eq!(rc, 0, "mqueue fail")
init_mqueue_init ==
    /\ initpc = "os_mqueue_init"
    /\ \E rc \in RC :
        /\ assert_eq_rc(rc, "os_sem_init", "os_mqueue_init")
        /\ SPI_DATA_QUEUE' = [init |-> (rc = 0), q |-> <<>>]
    /\ UNCHANGED << hal_spi, ss_pin, SPI_EVENT_QUEUE, SPI_SEM,
                    spi_callout, spi_cb_obj, handlerRuns, calloutRuns >>
    /\ UNCHANGED << taskVars, histVars >>

\* os::os_sem_init(&mut SPI_SEM, 0); assert_eq!(rc, 0, "sem fail")
init_sem_init ==
    /\ initpc = "os_sem_init"
    /\ \E rc \in RC :
        /\ assert_eq_rc(rc, "task_init", "os_sem_init")
        /\ SPI_SEM' = [init |-> (rc = 0), tokens |-> 0]
    /\ UNCHANGED << hal_spi, ss_pin, SPI_EVENT_QUEUE, SPI_DATA_QUEUE,
                    spi_callout, spi_cb_obj, handlerRuns, calloutRuns >>
    /\ UNCHANGED << taskVars, histVars >>

\* os::task_init(&mut SPI_TASK, "spi", Some(spi_task_func), ...) ?
init_task_init ==
    /\ initpc = "task_init"
    /\ \E rc \in RC :
        /\ try_rc(rc, "os_callout_init", "task_init")
        /\ SPI_TASK' = IF rc = 0 THEN "start" ELSE SPI_TASK
    /\ UNCHANGED << hal_spi, ss_pin, SPI_EVENT_QUEUE, SPI_DATA_QUEUE, SPI_SEM,
                    spi_callout, spi_cb_obj, handlerRuns, calloutRuns, om, pendResult >>
    /\ UNCHANGED histVars

\* os::os_callout_init(&mut spi_callout, os::eventq_dflt_get() ?, Some(spi_noblock_callback), null); Ok(())
init_callout_init ==
    /\ initpc = "os_callout_init"
    /\ \E rc \in RC :
        /\ try_rc(rc, "ok", "eventq_dflt_get")
        /\ spi_callout' = IF rc = 0 THEN "idle" ELSE spi_callout
    /\ UNCHANGED << hal_spi, ss_pin, SPI_EVENT_QUEUE, SPI_DATA_QUEUE, SPI_SEM,
                    spi_cb_obj, handlerRuns, calloutRuns >>
    /\ UNCHANGED << taskVars, histVars >>

\* The statements of spi_noblock_init, in program order (initpc).
spi_noblock_init ==
    \/ init_spi_disable
    \/ init_spi_config
    \/ init_spi_set_txrx_cb
    \/ init_spi_enable
    \/ init_gpio_init_out
    \/ init_eventq_init
    \/ init_mqueue_init
    \/ init_sem_init
    \/ init_task_init
    \/ init_callout_init

\* ------------------------------------------------ spi_noblock_write

\* spi_noblock_write(words): the body is `Ok(())`; the mbuf allocation, the
\* copy and os_mqueue_put are comments.  Callers use it once
\* spi_noblock_init has returned Ok.
spi_noblock_write ==
    /\ initpc = "ok"
    /\ ~Halted
    /\ Len(accepted) < MaxSubmits
    /\ \E words \in Words :
        /\ accepted' = Append(accepted, words)
        /\ lastSubmit' = "Ok"
    /\ UNCHANGED << initVars, taskVars, hal_spi, ss_pin, SPI_EVENT_QUEUE,
                    SPI_DATA_QUEUE, SPI_SEM, spi_callout, spi_cb_obj,
                    started, freed, handlerRuns, calloutRuns >>

\* ---------------------------------------- internal_spi_noblock_write

\* internal_spi_noblock_write counting the transfer when it starts it
\* (transfers incremented at the start instead of at the completion).
internal_spi_noblock_write_counts(txbuffer, txlen) ==
    /\ spi_cb_obj' = [spi_cb_obj EXCEPT !.txlen = txlen, !.transfers = @ + 1]
    /\ ss_pin' = hal_gpio_write(ss_pin, "low")
    /\ \E rc \in RC :
        IF rc = 0
        THEN /\ hal_spi' = [hal_spi EXCEPT !.busy = TRUE]
             /\ started' = Append(started, txbuffer)
             /\ UNCHANGED SPI_TASK
        ELSE /\ SPI_TASK' = "panic"
             /\ UNCHANGED << hal_spi, started >>

\* internal_spi_noblock_write(txbuffer, txlen), run by the task that calls
\* it.  The function is private and the source holds no call of it (the
\* body of spi_event_callback has a TODO where the write would be), so it
\* is no disjunct of Next.
internal_spi_noblock_write(txbuffer, txlen) ==
    /\ spi_cb_obj' = [spi_cb_obj EXCEPT !.txlen = txlen]
    /\ ss_pin' = hal_gpio_write(ss_pin, "low")
    /\ \E rc \in RC :
        IF rc = 0
        THEN /\ hal_spi' = [hal_spi EXCEPT !.busy = TRUE]
             /\ started' = Append(started, txbuffer)
             /\ UNCHANGED SPI_TASK
        ELSE /\ SPI_TASK' = "panic"
             /\ UNCHANGED << hal_spi, started >>

\* ------------------------------------------------------ the SPI task

\* os_sem_pend(&mut SPI_SEM, PendTicks): takes a token when there is one;
\* otherwise the wait ends after PendTicks ticks with OS_TIMEOUT.
os_sem_pend ==
    IF SPI_SEM.tokens > 0
    THEN /\ SPI_SEM' = [SPI_SEM EXCEPT !.tokens = @ - 1]
         /\ pendResult' = "OS_OK"
    ELSE /\ PendTicks > 0
         /\ pendResult' = "OS_TIMEOUT"
         /\ UNCHANGED SPI_SEM

\* spi_event_callback: the loop over SPI_DATA_QUEUE, one statement a step.
spi_event_callback ==
    CASE SPI_TASK = "os_mqueue_get" ->
            /\ IF SPI_DATA_QUEUE.q = <<>>
               THEN \* om.is_null(): break, back to eventq_run
                    /\ om' = NULL
                    /\ SPI_TASK' = "eventq_run"
                    /\ UNCHANGED SPI_DATA_QUEUE
               ELSE /\ om' = Head(SPI_DATA_QUEUE.q)
                    /\ SPI_DATA_QUEUE' = [SPI_DATA_QUEUE EXCEPT !.q = Tail(@)]
                    /\ SPI_TASK' = "os_sem_pend"
            /\ UNCHANGED << SPI_SEM, pendResult, freed >>
      [] SPI_TASK = "os_sem_pend" ->
            \* TODO: Write the data packet (nothing is written)
            /\ os_sem_pend
            /\ SPI_TASK' = "os_mbuf_free_chain"
            /\ UNCHANGED << om, SPI_DATA_QUEUE, freed >>
      [] SPI_TASK = "os_mbuf_free_chain" ->
            /\ freed' = Append(freed, om)
            /\ om' = NULL
            /\ SPI_TASK' = "os_mqueue_get"
            /\ UNCHANGED << SPI_DATA_QUEUE, SPI_SEM, pendResult >>

\* spi_task_func: loop { eventq_run(&mut SPI_EVENT_QUEUE) }.  eventq_run
\* blocks while the event queue is empty; an event of SPI_DATA_QUEUE runs
\* spi_event_callback.
spi_task_func ==
    /\ ~Halted
    /\ SPI_TASK \in { "start", "eventq_run", "os_mqueue_get", "os_sem_pend",
                      "os_mbuf_free_chain" }
    /\ CASE SPI_TASK = "start" ->
                /\ SPI_TASK' = "eventq_run"
                /\ UNCHANGED << SPI_EVENT_QUEUE, SPI_DATA_QUEUE, SPI_SEM, om,
                                pendResult, freed >>
         [] SPI_TASK = "eventq_run" ->
                /\ SPI_EVENT_QUEUE.q # <<>>
                /\ SPI_EVENT_QUEUE' = [SPI_EVENT_QUEUE EXCEPT !.q = Tail(@)]
                /\ SPI_TASK' = "os_mqueue_get"
                /\ UNCHANGED << SPI_DATA_QUEUE, SPI_SEM, om, pendResult, freed >>
         [] OTHER ->
                /\ spi_event_callback
                /\ UNCHANGED SPI_EVENT_QUEUE
    /\ UNCHANGED << initVars, hal_spi, ss_pin, spi_callout, spi_cb_obj,
                    accepted, lastSubmit, started, handlerRuns, calloutRuns >>

\* ------------------------------------------- completion interrupt

\* os_callout_reset(&mut spi_callout, 0): arms an initialised callout to
\* fire at the next tick; a callout with no event queue is rejected.
os_callout_reset(c) ==
    IF c = "uninit" THEN "uninit" ELSE "armed"

\* spi_noblock_handler with the chip-select write inverted (level 0 for 1).
spi_noblock_handler_ss_low ==
    /\ ~Halted
    /\ hal_spi.txrx_cb
    /\ hal_spi.enabled
    /\ handlerRuns < MaxInterrupts
    /\ handlerRuns' = handlerRuns + 1
    /\ hal_spi' = [hal_spi EXCEPT !.busy = FALSE]
    /\ ss_pin' = hal_gpio_write(ss_pin, "low")
    /\ spi_callout' = os_callout_reset(spi_callout)
    /\ UNCHANGED << initVars, taskVars, histVars, SPI_EVENT_QUEUE,
                    SPI_DATA_QUEUE, SPI_SEM, spi_cb_obj, calloutRuns >>

\* spi_noblock_handler(_arg, _len): called by the HAL, in interrupt
\* context, when a non-blocking transfer on SPI_NUM completes.  The port is
\* outside this module, so the interrupt is an input: it may arrive
\* whenever the callback is installed and the port enabled.  The release of
\* SPI_SEM is a comment in the source.
spi_noblock_handler ==
    /\ ~Halted
    /\ hal_spi.txrx_cb
    /\ hal_spi.enabled
    /\ handlerRuns < MaxInterrupts
    /\ handlerRuns' = handlerRuns + 1
    /\ hal_spi' = [hal_spi EXCEPT !.busy = FALSE]
    /\ ss_pin' = hal_gpio_write(ss_pin, "high")
    /\ spi_callout' = os_callout_reset(spi_callout)
    /\ UNCHANGED << initVars, taskVars, histVars, SPI_EVENT_QUEUE,
                    SPI_DATA_QUEUE, SPI_SEM, spi_cb_obj, calloutRuns >>

\* spi_noblock_callback transmitting from the callout: it selects the chip
\* and starts a transfer itself instead of leaving that to the SPI task.
spi_noblock_callback_transmits ==
    /\ ~Halted
    /\ spi_callout = "armed"
    /\ spi_callout' = "idle"
    /\ calloutRuns' = calloutRuns + 1
    /\ ss_pin' = hal_gpio_write(ss_pin, "low")
    /\ hal_spi' = [hal_spi EXCEPT !.busy = TRUE]
    /\ started' = Append(started, <<3>>)
    /\ UNCHANGED << initVars, taskVars, accepted, lastSubmit, freed,
                    SPI_EVENT_QUEUE, SPI_DATA_QUEUE, SPI_SEM, spi_cb_obj,
                    handlerRuns >>

\* spi_noblock_callback(_ev): the callout, run by the default event queue's
\* task once armed.  The body is a TODO: nothing is transmitted.
spi_noblock_callback ==
    /\ ~Halted
    /\ spi_callout = "armed"
    /\ spi_callout' = "idle"
    /\ calloutRuns' = calloutRuns + 1
    /\ UNCHANGED << initVars, taskVars, histVars, hal_spi, ss_pin,
                    SPI_EVENT_QUEUE, SPI_DATA_QUEUE, SPI_SEM, spi_cb_obj,
                    handlerRuns >>

\* ------------------------------------------------------ specification

Next ==
    \/ spi_noblock_init
    \/ spi_noblock_write
    \/ spi_task_func
    \/ spi_noblock_handler
    \/ spi_noblock_callback

Spec == Init /\ [][Next]_vars

\* ------------------------------- internal_spi_noblock_write as a unit

\* internal_spi_noblock_write(txbuffer, txlen) applied to a caller's buffer
\* in a state the program reaches once spi_noblock_init has returned Ok.
\* The source has no caller of it, so Spec never takes this step; SpecWrite
\* adds it to decide what the function itself does.
apply_internal_spi_noblock_write ==
    /\ initpc = "ok"
    /\ ~Halted
    /\ Len(started) < MaxWrites
    /\ \E txbuffer \in Words :
        internal_spi_noblock_write(txbuffer, Len(txbuffer))
    /\ UNCHANGED << initVars, SPI_EVENT_QUEUE, SPI_DATA_QUEUE, SPI_SEM,
                    spi_callout, om, pendResult, accepted, lastSubmit, freed,
                    handlerRuns, calloutRuns >>

NextWrite ==
    \/ Next
    \/ apply_internal_spi_noblock_write

SpecWrite == Init /\ [][NextWrite]_vars

\* ------------------------------------------------------------ claims

\* spi_noblock_init has returned Ok(()).
InitOk == initpc = "ok"

\* The requests the SPI task has taken off SPI_DATA_QUEUE so far.
Dequeued == Len(freed) + (IF om = NULL THEN 0 ELSE 1)

\* Nothing is left to do: the SPI task is parked in eventq_run with no
\* event pending and no chain queued or held, no transfer is outstanding
\* and the callout is not armed.
Quiescent ==
    /\ InitOk
    /\ SPI_TASK = "eventq_run"
    /\ SPI_EVENT_QUEUE.q = <<>>
    /\ SPI_DATA_QUEUE.q = <<>>
    /\ om = NULL
    /\ ~hal_spi.busy
    /\ spi_callout # "armed"

IsPrefix(a, b) == Len(a) <= Len(b) /\ a = SubSeq(b, 1, Len(a))

\* What the code never does, in any reachable state: nothing is ever queued,
\* no event is ever posted to the SPI task, the loop of spi_event_callback
\* is never entered, no transfer is ever started and no counter is written.
StubbedPathsUnreached ==
    /\ SPI_DATA_QUEUE.q = <<>>
    /\ SPI_EVENT_QUEUE.q = <<>>
    /\ SPI_TASK \in { "uninit", "start", "eventq_run" }
    /\ om = NULL /\ pendResult = "none"
    /\ started = <<>> /\ freed = <<>>
    /\ ~hal_spi.busy
    /\ ss_pin # "low"
    /\ SPI_SEM.tokens = 0
    /\ spi_cb_obj = [transfers |-> 0, txlen |-> 0, tx_rx_bytes |-> 0]

\* C1 (as claimed): the transfers are started in the order their requests
\* were accepted: what has been started is a prefix of what was accepted,
\* and once nothing is left to do every accepted request has been started.
C1_FifoStartOrder ==
    /\ IsPrefix(started, accepted)
    /\ Quiescent => started = accepted

C4_NoAcceptedRequestLost ==
    Len(accepted) = Len(SPI_DATA_QUEUE.q) + Dequeued

\* C5 (as claimed): a spi_noblock_write that returns Ok appends exactly its
\* words to the tail of SPI_DATA_QUEUE and posts the wake event to
\* SPI_EVENT_QUEUE, and does not touch the semaphore or the SPI task.
C5_SubmitEnqueuesAndWakes ==
    [][ Len(accepted') = Len(accepted) + 1 =>
            /\ SPI_DATA_QUEUE'.q = Append(SPI_DATA_QUEUE.q, accepted'[Len(accepted')])
            /\ SPI_EVENT_QUEUE'.q # <<>>
            /\ UNCHANGED << SPI_SEM, SPI_TASK >> ]_vars

C8_HandlerCountsOnePerTransfer ==
    [][ /\ (InitOk /\ handlerRuns' = handlerRuns + 1) =>
              spi_cb_obj'.transfers = spi_cb_obj.transfers + 1
        /\ (SPI_TASK = "os_sem_pend" /\ SPI_TASK' = "os_mbuf_free_chain") =>
              SPI_SEM'.tokens = 0 ]_vars

\* C9 (as claimed): with [0x01,0x02] then [0x03] accepted, once nothing is
\* left to do both transfers have been started in that order, chip-select
\* is high again and spi_cb_obj.transfers is 2.
C9_TwoRequestScenario ==
    (Quiescent /\ accepted = << <<1, 2>>, <<3>> >>) =>
        /\ started = << <<1, 2>>, <<3>> >>
        /\ ss_pin = "high"
        /\ spi_cb_obj.transfers = 2

\* C10 (as claimed): when hal_spi_set_txrx_cb fails, spi_noblock_init
\* returns Err, and no task, queue or semaphore has been created and the
\* chip-select line has not been touched.
C10_HandlerInstallFailureReturnsErr ==
    initFail = "hal_spi_set_txrx_cb" =>
        /\ initpc = "err"
        /\ SPI_TASK = "uninit"
        /\ ~SPI_DATA_QUEUE.init
        /\ ~SPI_EVENT_QUEUE.init
        /\ ~SPI_SEM.init
        /\ ss_pin = "floating"

\* A step of spi_noblock_handler, of spi_noblock_callback, of
\* spi_noblock_write, of internal_spi_noblock_write.
HandlerStep == handlerRuns' = handlerRuns + 1
CalloutStep == calloutRuns' = calloutRuns + 1
SubmitStep == Len(accepted') = Len(accepted) + 1
WriteStep == Len(started') = Len(started) + 1 \/ (SPI_TASK # "panic" /\ SPI_TASK' = "panic")

\* C12 (as claimed): a non-zero status of hal_spi_txrx_noblock fails that
\* request only: the SPI task stays alive, able to process later requests.
C12_FailedTransferNotFatal ==
    InitOk => ~Halted

\* C13 (as claimed): every run of spi_noblock_handler, once initialised,
\* sets chip-select high, arms spi_callout and releases SPI_SEM exactly once.
C13_HandlerEffects ==
    [][ (InitOk /\ HandlerStep) =>
            /\ ss_pin' = "high"
            /\ spi_callout' = "armed"
            /\ SPI_SEM'.tokens = SPI_SEM.tokens + 1 ]_vars

C18_SemReleasedPerCompletion ==
    [][ /\ SPI_SEM'.tokens \in { 0, 1 }
        /\ (InitOk /\ HandlerStep) => SPI_SEM'.tokens = 1 ]_vars

\* C19 (as claimed): spi_cb_obj (transfers, txlen, tx_rx_bytes) is changed
\* by spi_noblock_handler only.
C19_CountersOnlyByHandler ==
    [][ spi_cb_obj' # spi_cb_obj => HandlerStep ]_vars

\* C19 (amended): transfers and tx_rx_bytes are changed by no step other
\* than spi_noblock_handler's, and txlen is written only by
\* internal_spi_noblock_write when it starts a transfer; spi_noblock_write,
\* the SPI task's loop and spi_noblock_callback leave all three unchanged.
C19_TxlenByWriteOnly ==
    [][ /\ spi_cb_obj'.transfers # spi_cb_obj.transfers => HandlerStep
        /\ spi_cb_obj'.tx_rx_bytes # spi_cb_obj.tx_rx_bytes => HandlerStep
        /\ spi_cb_obj'.txlen # spi_cb_obj.txlen => WriteStep
        /\ (SubmitStep \/ CalloutStep) => spi_cb_obj' = spi_cb_obj ]_vars

\* C19 witness: a transfer has been started (txlen written) and the
\* handler, the callout and spi_noblock_write have run; transfers is 0.
C19_Witness ==
    /\ started # <<>>
    /\ spi_cb_obj.txlen = Len(started[Len(started)])
    /\ spi_cb_obj.transfers = 0
    /\ handlerRuns > 0
    /\ calloutRuns > 0
    /\ accepted # <<>>

====
